---- MODULE Spec2Model ----
(***************************************************************************)
(* A model of quantum_rng_api.py: the script reads a bit count, asks the   *)
(* IBM cloud for random bits (init_ibm_service, get_quantum_backend,       *)
(* run_quantum_job), falls back to the local simulator, and reports        *)
(* statistics of the bitstring.  Every vendor call is an external          *)
(* interaction whose outcome (a value or a raised exception) is chosen     *)
(* nondeterministically; `env` holds what the most recent call observed.   *)
(* Exceptions raised by vendor calls are subclasses of Exception.          *)
(***************************************************************************)
EXTENDS Integers, Sequences, FiniteSets, TLC

VARIABLES
    pc,           \* the function the script is about to run
    IBM_API_KEY,  \* the process environment variable read at line 14
    n_bits,       \* __main__'s n_bits (lines 148-151)
    service,      \* generate_quantum_bits' local `service` (line 130)
    backend,      \* generate_quantum_bits' local `backend` (line 134)
    job_bits,     \* generate_quantum_bits' local `bits` (line 138)
    bits,         \* __main__'s `bits` (line 154)
    calls,        \* the script's functions called so far, in order
    remote,       \* the kinds of remote interaction attempted so far
    env,          \* what the most recent call observed of the outside world
    report        \* what lines 155-165 printed

vars == <<pc, IBM_API_KEY, n_bits, service, backend, job_bits, bits, calls,
          remote, env, report>>

----------------------------------------------------------------------------
(* Bounds of the model. *)

\* integers this far around each clamp limit are offered as user input
Slack == 1
\* circuits up to this many classical bits have every measurement outcome
\* enumerated; wider ones have every two-run outcome (1..10..0 and 0..01..1)
MaxEnumBits == 8
\* the longest backend listing service.backends() returns
MaxBackends == 2
\* fractional bits kept by the model's binary floating-point quotient
FracBits == 20
\* bits per limb of the model's arbitrary-precision integers
LimbBits == 28
\* binary digits int() converts at a time (at most LimbBits)
ChunkBits == 14

(* Constants of the program. *)
MinBits == 8
MaxBits == 256
DefaultBits == 8
RemoteShots == 1
LocalShots == 1

----------------------------------------------------------------------------
(* Python values. *)

\* None where a string is expected: a tuple no bitstring equals
None == <<"None">>
NoService == "None"
TheService == "QiskitRuntimeService"
NoBackend == [name |-> "None", pos |-> 0]
Sherbrooke == [name |-> "ibm_sherbrooke", pos |-> 0]
Listed(i) == [name |-> "listed", pos |-> i]
NoReport == [printed |-> FALSE]

\* truth value of a string-or-None (`if bits:`, `if not api_key`)
Truthy(s) == s # None /\ Len(s) > 0

Max(a, b) == IF a >= b THEN a ELSE b
Min(a, b) == IF a <= b THEN a ELSE b

\* the exception classes vendor calls raise; RuntimeError stands for every
\* class the inner handler of run_quantum_job does not name
ExcClasses == {"AttributeError", "IndexError", "KeyError", "RuntimeError"}

----------------------------------------------------------------------------
(* The exception handlers. *)

\* the class the vendor's service calls raise when they fail
VendorError == "RuntimeError"

\* `except (AttributeError, IndexError, KeyError)`, line 104
CaughtInner(exc) == exc \in {"AttributeError", "IndexError", "KeyError"}

\* `except Exception`, lines 28, 40, 51 and 111
CaughtByException(exc) == exc \in ExcClasses

Returned(v) == [ret |-> v, propagated |-> FALSE]
Propagated == [ret |-> None, propagated |-> TRUE]

\* an exception anywhere in the body: line 111 catches it, line 113 returns
HandleOuter(exc) == IF CaughtByException(exc) THEN Returned(None) ELSE Propagated

\* an exception within lines 79-103: line 104 catches the three classes and
\* control reaches line 109; any other class goes on to line 111
HandleInner(exc) == IF CaughtInner(exc) THEN Returned(None) ELSE HandleOuter(exc)

----------------------------------------------------------------------------
(* __main__, lines 147-152: the bit count. *)

\* what input() and int() made of the user's line: an integer, a ValueError
\* (text int() rejects) or an EOFError (input() itself failed)
Inputs ==
    [kind : {"int"},
     val : {-1, 0} \cup ((MinBits - Slack)..(MinBits + Slack))
                   \cup ((MaxBits - Slack)..(MaxBits + Slack))]
    \cup {[kind |-> "ValueError", val |-> 0], [kind |-> "EOFError", val |-> 0]}

\* faulty variant of MainNBits: min and max exchanged
ClampSwapped(inp) ==
    IF inp.kind = "int" THEN Min(MinBits, Max(MaxBits, inp.val)) ELSE DefaultBits

MainNBits(inp) ==
    IF inp.kind = "int" THEN Max(MinBits, Min(MaxBits, inp.val)) ELSE DefaultBits

----------------------------------------------------------------------------
(* Circuits: an instruction list over num_qubits qubits, and the classical *)
(* registers measurements write to.                                        *)

QuantumCircuit(n) == [num_qubits |-> n, cregs |-> <<>>, ops |-> <<>>]

\* range(n)
Range(n) == [start |-> 0, stop |-> n]

\* qc.h(qubits): one Hadamard on each qubit given
H(qc, qubits) ==
    [qc EXCEPT !.ops = Append(@, [name |-> "h", qubits |-> qubits])]

\* qc.measure_all(): a new register `meas` as wide as the circuit, a barrier,
\* and a measurement of every qubit into it
MeasureAll(qc) ==
    LET all == Range(qc.num_qubits)
    IN  [qc EXCEPT !.cregs = Append(@, qc.num_qubits),
                   !.ops = @ \o <<[name |-> "barrier", qubits |-> all],
                                  [name |-> "measure", qubits |-> all]>>]

\* faulty variant of JobCircuit: one qubit too many
JobCircuitWide(n) == MeasureAll(H(QuantumCircuit(n + 1), Range(n + 1)))

\* run_quantum_job, lines 58-60
JobCircuit(n) == MeasureAll(H(QuantumCircuit(n), Range(n)))

\* faulty variant of LocalCircuit: the Hadamards left out
LocalCircuitNoH(n) == MeasureAll(QuantumCircuit(n))

\* run_local_simulation, lines 119-121
LocalCircuit(n) == MeasureAll(H(QuantumCircuit(n), Range(n)))

RECURSIVE SumSeq(_)
SumSeq(s) == IF s = <<>> THEN 0 ELSE Head(s) + SumSeq(Tail(s))

NumClbits(qc) == SumSeq(qc.cregs)

Flip(c) == IF c = "0" THEN "1" ELSE "0"

\* the strings of `len` characters that start with k copies of `lead` and
\* continue with its complement
TwoRun(len, k, lead) == [i \in 1..len |-> IF i <= k THEN lead ELSE Flip(lead)]

\* what one shot of a circuit can measure: one character per classical bit
Outcomes(qc) ==
    LET len == NumClbits(qc)
    IN  IF len <= MaxEnumBits
        THEN [1..len -> {"0", "1"}]
        ELSE {TwoRun(len, k, lead) : k \in 0..len, lead \in {"0", "1"}}

----------------------------------------------------------------------------
(* init_ibm_service, lines 12-30. *)

\* IBM_API_KEY: unset (os.getenv gives None), set to "", or set to a token
ApiKeys == {"unset", "empty", "token"}

\* `not api_key`
KeyMissing(key) == key \in {"unset", "empty"}

\* connect: "ok", or the class QiskitRuntimeService(...) raised
InitIbmService(key, connect) ==
    IF KeyMissing(key)
    THEN [ret |-> NoService, connected |-> FALSE, propagated |-> FALSE]
    ELSE IF connect = "ok"
    THEN [ret |-> TheService, connected |-> TRUE, propagated |-> FALSE]
    ELSE [ret |-> NoService, connected |-> TRUE,
          propagated |-> ~CaughtByException(connect)]

----------------------------------------------------------------------------
(* get_quantum_backend, lines 32-53. *)

\* what service.backend("ibm_sherbrooke") and its status() do
SherbrookeStates == {"lookup_raises", "status_raises", "operational", "down"}

\* what status() of a listed backend does
ListedStates == {"operational", "down", "raises"}

\* service.backends(): raises, or a list of backends
Listings ==
    {[raises |-> TRUE, statuses |-> <<>>]}
    \cup {[raises |-> FALSE, statuses |-> s] :
            s \in UNION {[1..k -> ListedStates] : k \in 0..MaxBackends}}

\* faulty variant of SearchBackends: the first listed backend is taken
\* without its status
SearchIgnoringStatus(statuses, i, visited) ==
    IF i > Len(statuses)
    THEN [ret |-> NoBackend, visited |-> visited, raised |-> FALSE,
          propagated |-> FALSE]
    ELSE [ret |-> Listed(i), visited |-> Append(visited, i), raised |-> FALSE,
          propagated |-> FALSE]

\* the for loop of lines 44-47 from position i on; visited lists the
\* positions whose status was queried
RECURSIVE SearchBackends(_, _, _)
SearchBackends(statuses, i, visited) ==
    IF i > Len(statuses)
    THEN [ret |-> NoBackend, visited |-> visited, raised |-> FALSE,
          propagated |-> FALSE]
    ELSE IF statuses[i] = "raises"
    THEN [ret |-> NoBackend, visited |-> Append(visited, i), raised |-> TRUE,
          propagated |-> ~CaughtByException(VendorError)]
    ELSE IF statuses[i] = "operational"
    THEN [ret |-> Listed(i), visited |-> Append(visited, i), raised |-> FALSE,
          propagated |-> FALSE]
    ELSE SearchBackends(statuses, i + 1, Append(visited, i))

\* lines 34-53: ibm_sherbrooke when operational (an exception of the lookup
\* or of status() is swallowed at line 40), else the search; an exception
\* of the listing or of the search is caught at line 51
GetQuantumBackend(sherbrooke, listing) ==
    IF sherbrooke = "operational"
    THEN [ret |-> Sherbrooke, visited |-> <<>>, raised |-> FALSE,
          propagated |-> FALSE]
    ELSE IF listing.raises
    THEN [ret |-> NoBackend, visited |-> <<>>, raised |-> TRUE,
          propagated |-> ~CaughtByException(VendorError)]
    ELSE SearchBackends(listing.statuses, 1, <<>>)

----------------------------------------------------------------------------
(* run_quantum_job, lines 55-113. *)

\* A result object, by what the attribute reads of lines 77-88 find, from a
\* well-formed one whose BitArray holds the list bl of bitstrings.
GoodResult(bl) ==
    [has_pub_results |-> TRUE,   \* hasattr(result, '_pub_results')
     pub_results_len |-> 1,      \* len(result._pub_results)
     index_exc |-> "none",       \* what result._pub_results[0] raises
     has_data |-> TRUE,          \* hasattr(pub_result_item, 'data')
     data_truthy |-> TRUE,       \* bool(pub_result_item.data)
     has_meas |-> TRUE,          \* hasattr(internal_data_bin, 'meas')
     meas_none |-> FALSE,        \* internal_data_bin.meas is None
     get_exc |-> "none",         \* what get_bitstrings() raises
     bitstrings |-> bl]          \* what get_bitstrings() returns

\* the result objects lacking a usable _pub_results / data / meas field
DefectiveResults ==
    LET g == GoodResult(<<>>)
    IN  {[g EXCEPT !.has_pub_results = FALSE],
         [g EXCEPT !.pub_results_len = 0],
         [g EXCEPT !.has_data = FALSE],
         [g EXCEPT !.data_truthy = FALSE],
         [g EXCEPT !.has_meas = FALSE],
         [g EXCEPT !.meas_none = TRUE]}
        \cup {[g EXCEPT !.index_exc = e] : e \in ExcClasses}
        \cup {[g EXCEPT !.get_exc = e] : e \in ExcClasses}

\* the results job.result() can deliver for circuit qc: a defective object,
\* an empty bitstring list, an empty first bitstring, or one shot's outcome
Results(qc) ==
    DefectiveResults
    \cup {GoodResult(<<>>), GoodResult(<< <<>> >>)}
    \cup {GoodResult(<<s>>) : s \in Outcomes(qc)}

\* the stages of lines 58-71 an exception can come from
JobStages == {"construct", "transpile", "submit", "result"}

\* what the vendor calls of one run_quantum_job do: an exception of class exc
\* at stage `fail`, or (fail = "none") the object job.result() returns
JobRuns(qc) ==
    [fail : JobStages, exc : ExcClasses, result : {GoodResult(<<>>)}]
    \cup [fail : {"none"}, exc : {"none"}, result : Results(qc)]

\* faulty variant of ExtractBits: the `if bits:` test of line 94 left out
ExtractAcceptEmpty(result) ==
    IF result.bitstrings # <<>>
    THEN Returned(result.bitstrings[1])
    ELSE Returned(None)

\* lines 88-99
ExtractBits(result) ==
    LET bits_ == IF result.bitstrings # <<>> THEN result.bitstrings[1] ELSE None
    IN  IF Truthy(bits_) THEN Returned(bits_) ELSE Returned(None)

\* lines 74-109
ParseResult(result) ==
    IF result.has_pub_results /\ result.pub_results_len > 0
    THEN IF result.index_exc # "none"
         THEN HandleInner(result.index_exc)
         ELSE IF result.has_data /\ result.data_truthy
         THEN IF result.has_meas /\ ~result.meas_none
              THEN IF result.get_exc # "none"
                   THEN HandleInner(result.get_exc)
                   ELSE ExtractBits(result)
              ELSE Returned(None)
         ELSE Returned(None)
    ELSE Returned(None)

\* lines 57-113
RunQuantumJob(run) ==
    IF run.fail \in JobStages THEN HandleOuter(run.exc) ELSE ParseResult(run.result)

\* the circuits handed to the hardware, with their shots (line 65);
\* transpile (line 62) maps a circuit to the backend's gates and qubits and
\* keeps what it computes and its classical registers, so the entry holds
\* the circuit as built and marks it transpiled
JobExecuted(run, n) ==
    IF run.fail \in {"construct", "transpile"}
    THEN <<>>
    ELSE <<[qc |-> JobCircuit(n), transpiled |-> TRUE, shots |-> RemoteShots]>>

----------------------------------------------------------------------------
(* run_local_simulation, lines 115-126. *)

\* result.get_counts() names an outcome by its registers' bits, the last
\* register first, with a space between registers
RECURSIVE CountsKey(_, _)
CountsKey(outcome, cregs) ==
    IF Len(cregs) <= 1
    THEN outcome
    ELSE LET w == cregs[Len(cregs)]
         IN  SubSeq(outcome, 1, w) \o <<" ">>
             \o CountsKey(SubSeq(outcome, w + 1, Len(outcome)),
                          SubSeq(cregs, 1, Len(cregs) - 1))

\* str.replace(" ", "")
ReplaceSpaces(s) == SelectSeq(s, LAMBDA c : c # " ")

\* line 124, applied to the one key of counts
LocalBits(key) == ReplaceSpaces(key)

\* the circuits handed to the simulator, with their shots (line 122)
LocalExecuted(n) ==
    <<[qc |-> LocalCircuit(n), transpiled |-> FALSE, shots |-> LocalShots]>>

----------------------------------------------------------------------------
(* __main__, lines 155-165: the statistics. *)

\* str.count(c)
Count(s, c) == Cardinality({i \in 1..Len(s) : s[i] = c})

\* An arbitrary-precision integer is its limbs, least significant first,
\* each below 2^LimbBits, the last one not 0; zero has no limb.
LimbBase == 2 ^ LimbBits

\* limbs * 2^k + v, for k <= LimbBits and 0 <= v < 2^k
ShiftAdd(limbs, k, v) ==
    LET len == Len(limbs)
        low == 2 ^ (LimbBits - k)
        hi(j) == limbs[j] \div low
    IN  IF len = 0
        THEN (IF v = 0 THEN <<>> ELSE <<v>>)
        ELSE [j \in 1..(len + (IF hi(len) > 0 THEN 1 ELSE 0)) |->
                IF j > len THEN hi(len)
                ELSE ((limbs[j] % low) * (2 ^ k)) + (IF j = 1 THEN v ELSE hi(j - 1))]

Digit(c) == IF c = "1" THEN 1 ELSE 0

\* the value of the k digits of s from position i on
RECURSIVE ChunkValue(_, _, _)
ChunkValue(s, i, k) ==
    IF k = 0 THEN 0 ELSE 2 * ChunkValue(s, i, k - 1) + Digit(s[i + k - 1])

\* the digits of s from position i on appended to the number acc, ChunkBits
\* digits at a time
RECURSIVE IntFrom(_, _, _)
IntFrom(s, i, acc) ==
    IF i > Len(s)
    THEN acc
    ELSE LET k == Min(ChunkBits, Len(s) - i + 1)
         IN  IntFrom(s, i + k, ShiftAdd(acc, k, ChunkValue(s, i, k)))

\* int(s, 2), line 156: the digits from the most significant one
IntBase2(s) == IntFrom(s, 1, <<>>)

\* whether int(s, 2) accepts s: a string (not None) of binary digits
IntAccepts(s) ==
    /\ s # None
    /\ Len(s) > 0
    /\ \A i \in 1..Len(s) : s[i] \in {"0", "1"}

\* a / b rounded to the nearest integer, ties to the even one
RoundDiv(a, b) ==
    LET q == a \div b
        r == a % b
    IN  IF 2 * r < b THEN q
        ELSE IF 2 * r > b THEN q + 1
        ELSE IF q % 2 = 0 THEN q ELSE q + 1

\* A float is the nearest multiple of 2^-FracBits, held as its numerator
\* (a double keeps 53 significant bits; the rounding rule is the same).
Float(num, den) == RoundDiv(num * (2 ^ FracBits), den)

\* ones / n_bits, line 164
Ratio(ones, n) == Float(ones, n)

\* faulty variant of Verdict: the bounds taken as inclusive
VerdictInclusive(ones, n) ==
    IF Float(4, 10) <= Ratio(ones, n) /\ Ratio(ones, n) <= Float(6, 10)
    THEN "Pass" ELSE "Fail"

\* 'Pass' if 0.4 < ratio < 0.6 else 'Fail', line 165
Verdict(ones, n) ==
    IF Float(4, 10) < Ratio(ones, n) /\ Ratio(ones, n) < Float(6, 10)
    THEN "Pass" ELSE "Fail"

\* lines 155-165
Stats(s, n) ==
    [printed |-> TRUE,
     decimal |-> IntBase2(s),
     zeros |-> Count(s, "0"),
     ones |-> Count(s, "1"),
     verdict |-> Verdict(Count(s, "1"), n)]

----------------------------------------------------------------------------------------------------------------------------------------------
(* generate_quantum_bits, lines 128-143: the branch after each call.       *)

\* faulty variant of GenAfterService: the test of line 131 left out
AlwaysDiscover(svc) == "get_quantum_backend"

\* lines 131-134
GenAfterService(svc) ==
    IF svc = NoService THEN "run_local_simulation" ELSE "get_quantum_backend"

\* faulty variant of GenAfterBackend: the test of line 135 left out
AlwaysSubmit(b) == "run_quantum_job"

\* lines 135-138
GenAfterBackend(b) ==
    IF b = NoBackend THEN "run_local_simulation" ELSE "run_quantum_job"

\* faulty variant of GenAfterJob: whatever the job gave is returned
AlwaysReturn(jb) == "return"

\* faulty variant of GenAfterJob: the simulator runs whatever the job gave
AlwaysSimulate(jb) == "run_local_simulation"

\* lines 139-143
GenAfterJob(jb) ==
    IF Truthy(jb) THEN "return" ELSE "run_local_simulation"

----------------------------------------------------------------------------
(* The script.  pc names the function about to be called or the statement  *)
(* of generate_quantum_bits about to run; env is what the call that just   *)
(* ran observed, and goes with its frame when the caller moves on.         *)

NoEnv == [call |-> "none"]

Init ==
    /\ pc = "input"
    /\ IBM_API_KEY \in ApiKeys
    /\ n_bits = 0
    /\ service = NoService
    /\ backend = NoBackend
    /\ job_bits = None
    /\ bits = None
    /\ calls = <<>>
    /\ remote = {}
    /\ env = NoEnv
    /\ report = NoReport

\* lines 147-152
ReadInput ==
    /\ pc = "input"
    /\ \E inp \in Inputs :
        /\ n_bits' = MainNBits(inp)
        /\ env' = [call |-> "input", input |-> inp]
    /\ pc' = "init_ibm_service"
    /\ UNCHANGED <<IBM_API_KEY, service, backend, job_bits, bits, calls,
                   remote, report>>

\* line 130 and init_ibm_service
CallInitIbmService ==
    /\ pc = "init_ibm_service"
    /\ \E connect \in IF KeyMissing(IBM_API_KEY)
                      THEN {"not_attempted"} ELSE {"ok"} \cup ExcClasses :
        LET r == InitIbmService(IBM_API_KEY, connect)
        IN  /\ env' = [call |-> "init_ibm_service", connect |-> connect]
            /\ service' = r.ret
            /\ remote' = IF r.connected THEN remote \cup {"connect"} ELSE remote
            /\ pc' = IF r.propagated THEN "crashed" ELSE "if_not_service"
    /\ calls' = Append(calls, "init_ibm_service")
    /\ UNCHANGED <<IBM_API_KEY, n_bits, backend, job_bits, bits, report>>

\* lines 131-132
IfNotService ==
    /\ pc = "if_not_service"
    /\ pc' = GenAfterService(service)
    /\ env' = NoEnv
    /\ UNCHANGED <<IBM_API_KEY, n_bits, service, backend, job_bits, bits,
                   calls, remote, report>>

\* line 134 and get_quantum_backend; the listing is asked for only when
\* ibm_sherbrooke was not selected
CallGetQuantumBackend ==
    /\ pc = "get_quantum_backend"
    /\ \E sherbrooke \in SherbrookeStates :
       \E listing \in IF sherbrooke = "operational"
                      THEN {[raises |-> FALSE, statuses |-> <<>>]}
                      ELSE Listings :
        LET r == GetQuantumBackend(sherbrooke, listing)
        IN  /\ env' = [call |-> "get_quantum_backend",
                       sherbrooke |-> sherbrooke,
                       listing |-> listing,
                       visited |-> r.visited,
                       raised |-> r.raised]
            /\ backend' = r.ret
            /\ pc' = IF r.propagated THEN "crashed" ELSE "if_not_backend"
    /\ calls' = Append(calls, "get_quantum_backend")
    /\ remote' = remote \cup {"discover"}
    /\ UNCHANGED <<IBM_API_KEY, n_bits, service, job_bits, bits, report>>

\* lines 135-136
IfNotBackend ==
    /\ pc = "if_not_backend"
    /\ pc' = GenAfterBackend(backend)
    /\ env' = NoEnv
    /\ UNCHANGED <<IBM_API_KEY, n_bits, service, backend, job_bits, bits,
                   calls, remote, report>>

\* line 138 and run_quantum_job
CallRunQuantumJob ==
    /\ pc = "run_quantum_job"
    /\ \E run \in JobRuns(JobCircuit(n_bits)) :
        LET r == RunQuantumJob(run)
            executed == JobExecuted(run, n_bits)
        IN  /\ env' = [call |-> "run_quantum_job",
                       run |-> run,
                       executed |-> executed]
            /\ job_bits' = r.ret
            /\ remote' = IF executed # <<>> THEN remote \cup {"submit"} ELSE remote
            /\ pc' = IF r.propagated THEN "crashed" ELSE "if_bits"
    /\ calls' = Append(calls, "run_quantum_job")
    /\ UNCHANGED <<IBM_API_KEY, n_bits, service, backend, bits, report>>

\* lines 139-140; `return bits` hands the string to line 154
IfBits ==
    /\ pc = "if_bits"
    /\ LET target == GenAfterJob(job_bits)
       IN  /\ pc' = IF target = "return" THEN "report" ELSE target
           /\ bits' = IF target = "return" THEN job_bits ELSE bits
    /\ env' = NoEnv
    /\ UNCHANGED <<IBM_API_KEY, n_bits, service, backend, job_bits, calls,
                   remote, report>>

\* lines 132, 136 or 143 and run_local_simulation, whose return value is
\* generate_quantum_bits' (line 154); the simulator raises (nothing catches
\* it) or measures one outcome of the circuit
CallRunLocalSimulation ==
    /\ pc = "run_local_simulation"
    /\ \/ /\ env' = [call |-> "run_local_simulation",
                     raised |-> TRUE,
                     executed |-> LocalExecuted(n_bits),
                     key |-> <<>>]
          /\ pc' = "crashed"
          /\ bits' = bits
       \/ \E outcome \in Outcomes(LocalCircuit(n_bits)) :
            LET key == CountsKey(outcome, LocalCircuit(n_bits).cregs)
            IN  /\ env' = [call |-> "run_local_simulation",
                           raised |-> FALSE,
                           executed |-> LocalExecuted(n_bits),
                           key |-> key]
                /\ bits' = LocalBits(key)
                /\ pc' = "report"
    /\ calls' = Append(calls, "run_local_simulation")
    /\ UNCHANGED <<IBM_API_KEY, n_bits, service, backend, job_bits, remote,
                   report>>

\* lines 155-165; int(bits, 2) raises on what it does not accept
Report ==
    /\ pc = "report"
    /\ IF IntAccepts(bits)
       THEN /\ report' = Stats(bits, n_bits)
            /\ pc' = "done"
       ELSE /\ report' = report
            /\ pc' = "crashed"
    /\ env' = NoEnv
    /\ UNCHANGED <<IBM_API_KEY, n_bits, service, backend, job_bits, bits,
                   calls, remote>>

Next ==
    \/ ReadInput
    \/ CallInitIbmService
    \/ IfNotService
    \/ CallGetQuantumBackend
    \/ IfNotBackend
    \/ CallRunQuantumJob
    \/ IfBits
    \/ CallRunLocalSimulation
    \/ Report

Spec == Init /\ [][Next]_vars

----------------------------------------------------------------------------
(* Properties. *)

Called(f) == \E i \in 1..Len(calls) : calls[i] = f
TimesCalled(f) == Cardinality({i \in 1..Len(calls) : calls[i] = f})
LastCall == IF calls = <<>> THEN "none" ELSE calls[Len(calls)]

\* the local simulator has been reached: it is about to run or ran last
InFallback == pc = "run_local_simulation" \/ LastCall = "run_local_simulation"

\* the simulator itself failed, which nothing in the script handles
LocalRaised == env.call = "run_local_simulation" /\ env.raised

\* the remote pipeline handed generate_quantum_bits a non-empty bitstring
HardwareBits == Called("run_quantum_job") /\ pc # "if_bits" /\ Truthy(job_bits)

IsBitstring(s, n) ==
    /\ s # None
    /\ Len(s) = n
    /\ \A i \in 1..Len(s) : s[i] \in {"0", "1"}

\* C1: generate_quantum_bits falls back to the local simulator at every
\* failure point of the remote pipeline: (a) a missing or empty IBM_API_KEY
\* and (b) an exception while connecting leave no service, (c) no operational
\* backend and (d) an exception during backend selection leave no backend,
\* (e) an exception while building, transpiling, submitting or awaiting the
\* job, (f) a result object without a usable _pub_results / data / meas and
\* (g) an empty bitstring list or empty first bitstring leave no bits; and
\* whenever a step left nothing, the next thing run is run_local_simulation,
\* whose return value is the value generate_quantum_bits returns.
C1_FallbackAtEveryFailure ==
    /\ (pc = "if_not_service"
          /\ (KeyMissing(IBM_API_KEY) \/ env.connect \in ExcClasses))
       => service = NoService
    /\ (pc = "if_not_backend"
          /\ env.sherbrooke # "operational"
          /\ (\/ env.listing.raises
              \/ \A i \in 1..Len(env.listing.statuses) :
                    env.listing.statuses[i] = "down"
              \/ \E i \in 1..Len(env.listing.statuses) :
                    /\ env.listing.statuses[i] = "raises"
                    /\ \A j \in 1..(i - 1) : env.listing.statuses[j] = "down"))
       => backend = NoBackend
    /\ (pc = "if_bits"
          /\ (\/ env.run.fail \in JobStages
              \/ env.run.result \in DefectiveResults
              \/ env.run.result.bitstrings = <<>>
              \/ env.run.result.bitstrings[1] = <<>>))
       => ~Truthy(job_bits)
    /\ (Called("init_ibm_service") /\ pc # "if_not_service"
          /\ service = NoService)
       => InFallback
    /\ (Called("get_quantum_backend") /\ pc # "if_not_backend"
          /\ backend = NoBackend)
       => InFallback
    /\ (Called("run_quantum_job") /\ pc # "if_bits" /\ ~Truthy(job_bits))
       => InFallback
    /\ (env.call = "run_local_simulation" /\ ~env.raised)
       => (pc = "report" /\ bits = ReplaceSpaces(env.key))
    /\ (pc = "done" /\ Called("run_local_simulation")) => IsBitstring(bits, n_bits)

\* the job ran, failed at result parsing, and the simulator's bits came back
C1_Witness ==
    /\ pc = "report"
    /\ calls = <<"init_ibm_service", "get_quantum_backend", "run_quantum_job",
                 "run_local_simulation">>
    /\ job_bits = None
    /\ bits = env.key
    /\ Len(bits) = n_bits

\* C2: the bitstring generate_quantum_bits returns has one bit per qubit: on
\* the hardware path and on the simulator path it is a string of exactly
\* n_bits characters, each '0' or '1'.
C2_OneBitPerQubit ==
    pc \in {"report", "done"} => IsBitstring(bits, n_bits)

\* the hardware's string of more than MinBits bits was reported
C2_Witness ==
    /\ pc = "done"
    /\ HardwareBits
    /\ bits = job_bits
    /\ Len(bits) = n_bits
    /\ n_bits > MinBits

\* the fixed order of the four steps
StepOrder ==
    <<"init_ibm_service", "get_quantum_backend", "run_quantum_job",
      "run_local_simulation">>

StepIndex(f) == CHOOSE k \in 1..Len(StepOrder) : StepOrder[k] = f

\* C3: the steps run in the order auth, backend discovery, job submission,
\* local fallback, and a remote step is attempted only after every earlier
\* remote step succeeded: get_quantum_backend is called only with a service,
\* run_quantum_job only with a backend, and with IBM_API_KEY unset or empty
\* no connection, discovery or submission is attempted.
C3_StepsInOrder ==
    /\ \A i, j \in 1..Len(calls) :
          i < j => StepIndex(calls[i]) < StepIndex(calls[j])
    /\ calls # <<>> => calls[1] = "init_ibm_service"
    /\ Called("get_quantum_backend") => service = TheService
    /\ Called("run_quantum_job")
          => (Called("get_quantum_backend") /\ backend # NoBackend)
    /\ "discover" \in remote => (service = TheService /\ "connect" \in remote)
    /\ "submit" \in remote => (backend # NoBackend /\ "discover" \in remote)
    /\ KeyMissing(IBM_API_KEY)
          => (/\ remote = {}
              /\ ~Called("get_quantum_backend")
              /\ ~Called("run_quantum_job"))

\* a run without a key that went straight from auth to the simulator
C3_Witness ==
    /\ pc = "done"
    /\ IBM_API_KEY = "empty"
    /\ calls = <<"init_ibm_service", "run_local_simulation">>
    /\ remote = {}

\* the fixed pattern on n qubits: a Hadamard on every qubit, then (behind
\* measure_all's barrier) a measurement of every qubit into n classical bits
FixedPattern(qc, n) ==
    /\ qc.num_qubits = n
    /\ qc.cregs = <<n>>
    /\ Len(qc.ops) = 3
    /\ qc.ops[1] = [name |-> "h", qubits |-> [start |-> 0, stop |-> n]]
    /\ qc.ops[2].name = "barrier"
    /\ qc.ops[3] = [name |-> "measure", qubits |-> [start |-> 0, stop |-> n]]

\* C4: both paths execute the same fixed circuit: whatever run_quantum_job
\* hands to the hardware and run_local_simulation hands to the simulator is
\* the n_bits-qubit circuit of a Hadamard on every qubit followed by a
\* measurement of all qubits, with exactly one shot, whatever ran or failed
\* before; a job that got as far as submission and the simulator each
\* executed one such circuit.
C4_SameFixedCircuit ==
    env.call \in {"run_quantum_job", "run_local_simulation"}
    => /\ \A i \in 1..Len(env.executed) :
            /\ FixedPattern(env.executed[i].qc, n_bits)
            /\ env.executed[i].shots = 1
       /\ Len(env.executed) <= 1
       /\ (env.call = "run_local_simulation") => Len(env.executed) = 1
       /\ (env.call = "run_quantum_job"
             /\ env.run.fail \notin {"construct", "transpile"})
          => Len(env.executed) = 1
       /\ JobCircuit(n_bits) = LocalCircuit(n_bits)

\* the simulator ran its circuit after the hardware had run the same one
C4_Witness ==
    /\ env.call = "run_local_simulation"
    /\ ~env.raised
    /\ Called("run_quantum_job")
    /\ "submit" \in remote
    /\ env.executed[1].qc = JobCircuit(n_bits)
    /\ env.executed[1].shots = 1

\* C5: the number of bits requested is always within 8..256: an input that
\* parses as an integer is clamped to [8, 256], and any other input (or a
\* failed read) gives 8.
C5_NBitsClamped ==
    /\ pc # "input" => n_bits \in 8..256
    /\ env.call = "input"
       => LET inp == env.input
          IN  /\ (inp.kind = "int" /\ inp.val < 8) => n_bits = 8
              /\ (inp.kind = "int" /\ inp.val > 256) => n_bits = 256
              /\ (inp.kind = "int" /\ inp.val \in 8..256) => n_bits = inp.val
              /\ inp.kind # "int" => n_bits = 8

\* an input above 256 was clamped down
C5_Witness ==
    /\ env.call = "input"
    /\ env.input.kind = "int"
    /\ env.input.val > 256
    /\ n_bits = 256

\* bit p (0 the least significant) of an arbitrary-precision integer
BitAt(limbs, p) ==
    LET j == (p \div LimbBits) + 1
    IN  IF j > Len(limbs) THEN 0 ELSE (limbs[j] \div (2 ^ (p % LimbBits))) % 2

\* limbs is the number whose binary numeral is s: its bit p is the p-th
\* character of s from the right, and it has no other bit set
IsBase2Value(limbs, s) ==
    /\ \A j \in 1..Len(limbs) : limbs[j] \in 0..(LimbBase - 1)
    /\ \A p \in 0..(Len(s) - 1) :
          BitAt(limbs, p) = (IF s[Len(s) - p] = "1" THEN 1 ELSE 0)
    /\ \A p \in Len(s)..(Len(limbs) * LimbBits - 1) : BitAt(limbs, p) = 0

\* C6: the reported statistics are consistent with the bitstring: zeros and
\* ones sum to n_bits, the decimal value is the bitstring read as a base-2
\* numeral, and the entropy verdict is 'Pass' exactly when
\* 4 * n_bits < 10 * ones < 6 * n_bits (both strict), 'Fail' otherwise.
C6_StatsConsistent ==
    pc = "done"
    => /\ report.printed
       /\ report.zeros + report.ones = n_bits
       /\ report.ones = Cardinality({i \in 1..Len(bits) : bits[i] = "1"})
       /\ IsBase2Value(report.decimal, bits)
       /\ report.verdict \in {"Pass", "Fail"}
       /\ report.verdict = "Pass"
          <=> (4 * n_bits < 10 * report.ones /\ 10 * report.ones < 6 * n_bits)

\* a report whose ratio of ones is exactly 0.4, which fails the test
C6_Witness ==
    /\ pc = "done"
    /\ 10 * report.ones = 4 * n_bits
    /\ report.verdict = "Fail"
    /\ Len(report.decimal) > 1

\* the first listed backend observed operational with only non-operational
\* ones before it, if the search gets that far
FirstOperational(statuses) ==
    {i \in 1..Len(statuses) :
        /\ statuses[i] = "operational"
        /\ \A j \in 1..(i - 1) : statuses[j] = "down"}

\* C7: get_quantum_backend returns only a backend observed operational:
\* ibm_sherbrooke when its lookup and status succeed and it is operational;
\* otherwise the first listed backend that is operational; None when no
\* listed backend is operational or when the listing or a status query made
\* during the search raises.  It never raises.
C7_BackendSelection ==
    /\ LastCall = "get_quantum_backend" => pc # "crashed"
    /\ pc = "if_not_backend"
       => LET sh == env.sherbrooke
              st == env.listing.statuses
              first == FirstOperational(st)
          IN  /\ sh = "operational" => backend = Sherbrooke
              /\ (sh # "operational" /\ ~env.listing.raises /\ first # {})
                 => \E i \in first : backend = Listed(i)
              /\ (sh # "operational" /\ (env.listing.raises \/ first = {}))
                 => backend = NoBackend
              /\ backend = Sherbrooke => sh = "operational"
              /\ \A i \in 1..Len(st) :
                    backend = Listed(i) => st[i] = "operational"
              /\ backend \in {NoBackend, Sherbrooke} \cup {Listed(i) : i \in 1..Len(st)}

\* ibm_sherbrooke was down and the second listed backend was selected
C7_Witness ==
    /\ pc = "if_not_backend"
    /\ env.sherbrooke = "down"
    /\ env.listing.statuses = <<"down", "operational">>
    /\ backend = Listed(2)

\* C8: run_quantum_job never propagates an exception and has two kinds of
\* outcome: a non-empty bitstring, which is the first element of
\* get_bitstrings() of the first pub result's 'meas' data, or None; it
\* returns None for every failure of construction, transpilation,
\* submission, waiting or navigating the result, and never an empty string.
C8_JobOutcomes ==
    /\ LastCall = "run_quantum_job" => pc # "crashed"
    /\ job_bits # <<>>
    /\ pc = "if_bits"
       => LET run == env.run
          IN  /\ \/ job_bits = None
                 \/ /\ Len(job_bits) > 0
                    /\ run.fail = "none"
                    /\ run.result \notin DefectiveResults
                    /\ run.result.bitstrings # <<>>
                    /\ job_bits = run.result.bitstrings[1]
              /\ (run.fail \in JobStages \/ run.result \in DefectiveResults)
                 => job_bits = None

\* get_bitstrings() raised a class the inner handler does not name, and the
\* outer handler turned it into None
C8_Witness ==
    /\ pc = "if_bits"
    /\ env.run.fail = "none"
    /\ env.run.result.get_exc = "RuntimeError"
    /\ job_bits = None

\* C9: hardware results take precedence and the fallback runs at most once:
\* run_local_simulation is invoked at most one time and only if the remote
\* pipeline yielded no non-empty bitstring; a non-empty bitstring from
\* run_quantum_job is returned unchanged, without the simulator being run.
C9_HardwarePrecedence ==
    /\ TimesCalled("run_local_simulation") <= 1
    /\ (pc = "run_local_simulation" \/ Called("run_local_simulation"))
       => ~Truthy(job_bits)
    /\ HardwareBits
       => (/\ pc \in {"report", "done"}
           /\ bits = job_bits
           /\ ~Called("run_local_simulation"))

\* the hardware's bitstring reached the report and the simulator never ran
C9_Witness ==
    /\ pc = "done"
    /\ Truthy(job_bits)
    /\ bits = job_bits
    /\ calls = <<"init_ibm_service", "get_quantum_backend", "run_quantum_job">>

\* how far the script has come: its statements in program order
Progress(at) ==
    CASE at = "input" -> 0
      [] at = "init_ibm_service" -> 1
      [] at = "if_not_service" -> 2
      [] at = "get_quantum_backend" -> 3
      [] at = "if_not_backend" -> 4
      [] at = "run_quantum_job" -> 5
      [] at = "if_bits" -> 6
      [] at = "run_local_simulation" -> 7
      [] at = "report" -> 8
      [] OTHER -> 9

\* C10: provided every external call returns or raises and the local
\* simulator succeeds, every run ends having printed a bitstring: every step
\* moves the script strictly forward (nothing is retried or looped on), the
\* script is always at its end or at a statement it can run, it stops early
\* only if the simulator raised, no function is called twice, the backend
\* search queries each listed backend at most once and in order, and what is
\* printed is never None.
C10_Terminates ==
    /\ [][Progress(pc') > Progress(pc)]_vars
    /\ [](pc \in {"done", "crashed"} \/ Progress(pc) < 9)
    /\ [](pc = "crashed" => LocalRaised)
    /\ [](pc \in {"report", "done"} => bits # None)
    /\ [](pc = "done" => report.printed)
    /\ [](\A k \in 1..Len(StepOrder) : TimesCalled(StepOrder[k]) <= 1)
    /\ [](pc = "if_not_backend"
            => /\ Len(env.visited) <= Len(env.listing.statuses)
               /\ \A i \in 1..Len(env.visited) : env.visited[i] = i)

\* a run that tried every step and still printed its report
C10_Witness ==
    /\ pc = "done"
    /\ report.printed
    /\ Len(calls) = Len(StepOrder)

====
